---- MODULE Spec2Model ----
(***************************************************************************)
(* regenkfs: writing a KFS filesystem (descending FAT, ascending DAT) into *)
(* a ROM image.  The model follows src/src/main.rs: Context::new, run,     *)
(* write_filesystem, write_recursive, write_fat, write_dat, write_block.   *)
(***************************************************************************)
EXTENDS Integers, Sequences, FiniteSets, TLC

\* ------------------------------------------------------------ constants
PAGE_LENGTH == 16384
BLOCK_SIZE == 256
KFS_FILE_ID == 127
KFS_DIR_ID == 191
KFS_SYM_ID == 223
KFS_VERSION == 0

\* ------------------------------------------------------------ bounds
\* The largest number of entries (files, symlinks, directories) of a model tree.
MaxNodes == 3

\* ROM lengths in pages: too short for the planner, a FAT inside the kernel
\* pages, the FAT in the first DAT page, a TI-83+ sized ROM, the largest
\* fat_start, and one page more.
RomPages == {8, 12, 13, 32, 264, 265}

\* Entry names (bytes): "ab" and "b" (byte order and length order differ).
Names == {<<97, 98>>, <<98>>}

\* Lengths of regular files: empty, one byte, one block and a byte, and the
\* 63 full blocks of one DAT page (after a shorter file, a chain that runs
\* into the next page).
FileLens == {0, 1, 257, 16128}

\* Symlink targets (bytes): "../t".
Targets == {<<46, 46, 47, 116>>}

\* ------------------------------------------------------------ the model tree
\* A directory is a set of nodes with distinct names.
FileNode(n, l) == [name |-> n, kind |-> "file", len |-> l, target |-> <<>>, children |-> {}]
SymNode(n, t) == [name |-> n, kind |-> "sym", len |-> 0, target |-> t, children |-> {}]
DirNode(n, c) == [name |-> n, kind |-> "dir", len |-> 0, target |-> <<>>, children |-> c]

Leaves(n) == {FileNode(n, l) : l \in FileLens} \cup {SymNode(n, t) : t \in Targets}

RECURSIVE ForestsOver(_, _)
\* The directories whose entries are named in names and that hold, with
\* their subdirectories, at most k entries.
ForestsOver(names, k) ==
    IF names = {} \/ k = 0 THEN {{}}
    ELSE LET nm == CHOOSE x \in names : TRUE
             rest == names \ {nm}
         IN  ForestsOver(rest, k)
             \cup { {leaf} \cup f : leaf \in Leaves(nm), f \in ForestsOver(rest, k - 1) }
             \cup UNION { { {DirNode(nm, sub)} \cup f :
                              sub \in ForestsOver(Names, j), f \in ForestsOver(rest, k - 1 - j) }
                          : j \in 0..(k - 1) }

Trees == ForestsOver(Names, MaxNodes)

\* ------------------------------------------------------------ bytes
LE16(x) == <<x % 256, (x \div 256) % 256>>
LE24(x) == <<x % 256, (x \div 256) % 256, (x \div 65536) % 256>>

Reverse(s) == [i \in 1..Len(s) |-> s[Len(s) + 1 - i]]

Min(a, b) == IF a < b THEN a ELSE b

\* Byte order of OsStr / Path components.
LexLess(a, b) ==
    \/ \E i \in 1..Min(Len(a), Len(b)) :
          /\ a[i] < b[i]
          /\ \A j \in 1..(i - 1) : a[j] = b[j]
    \/ /\ Len(a) < Len(b)
       /\ \A j \in 1..Len(a) : a[j] = b[j]

RECURSIVE SortedPaths(_)
\* fs::read_dir(..).collect() followed by paths.sort_by_key(|dir| dir.path()).
SortedPaths(dir) ==
    IF dir = {} THEN <<>>
    ELSE LET first == CHOOSE n \in dir : \A m \in dir \ {n} : LexLess(n.name, m.name)
         IN  <<first>> \o SortedPaths(dir \ {first})

\* The bytes of a file: a function of its path and the position, different
\* from block to block.
RECURSIVE SumBytes(_)
SumBytes(s) == IF s = <<>> THEN 0 ELSE s[1] + SumBytes(Tail(s))
RECURSIVE Seed(_)
Seed(path) == IF path = <<>> THEN 0 ELSE (SumBytes(path[1]) + 5 * Len(path) + 3 * Seed(Tail(path))) % 256
Content(seed, i) == (seed + i + 3 * (i \div BLOCK_SIZE)) % 256

\* The ROM byte at offset o before the run.
Orig(o) == (o + 7 * (o \div PAGE_LENGTH)) % 251

VARIABLES pc, rom_len, model, fat_start, dat_start, rom,
          parent_id, section_id, fatptr, stack, file, length, pSID, result

vars == <<pc, rom_len, model, fat_start, dat_start, rom,
          parent_id, section_id, fatptr, stack, file, length, pSID, result>>

\* ------------------------------------------------------------ the ROM
\* rom is the sequence of writes made to the ROM file since it was opened
\* (OpenOptions .truncate(false)): the byte at an offset is the one the last
\* write covering it put there, or the pre-run byte.  A write records the
\* operation that issued it (by) and the entry it was issued for (owner).
\*   kind "bytes": data is the bytes written;
\*   kind "page":  one blank_page of run(), data is <<blank_page[0]>>;
\*   kind "file":  bytes read from the input file, data is <<seed, position>>.
WBytes(off, bytes, by, owner) ==
    [off |-> off, len |-> Len(bytes), kind |-> "bytes", data |-> bytes, by |-> by, owner |-> owner]
WPage(off, first) ==
    [off |-> off, len |-> PAGE_LENGTH, kind |-> "page", data |-> <<first>>, by |-> "init", owner |-> <<>>]
WFile(off, n, seed, pos, owner) ==
    [off |-> off, len |-> n, kind |-> "file", data |-> <<seed, pos>>, by |-> "block", owner |-> owner]

Covers(w, o) == w.off <= o /\ o < w.off + w.len

ByteOf(w, o) ==
    CASE w.kind = "bytes" -> w.data[o - w.off + 1]
      [] w.kind = "page"  -> IF o = w.off THEN w.data[1] ELSE 255
      [] w.kind = "file"  -> Content(w.data[1], w.data[2] + (o - w.off))

Max(S) == CHOOSE x \in S : \A y \in S : y <= x

\* The ROM file's byte at offset o after the writes of r (a write past the
\* end extends the file; the gap reads as zero).
ByteAfter(r, o) ==
    IF r # <<>> /\ Covers(r[Len(r)], o) THEN ByteOf(r[Len(r)], o)
    ELSE LET ws == {i \in 1..Len(r) : Covers(r[i], o)}
         IN  IF ws # {} THEN ByteOf(r[Max(ws)], o)
             ELSE IF o < rom_len THEN Orig(o) ELSE 0

RomByte(o) == ByteAfter(rom, o)

RomBytes(off, n) == [i \in 1..n |-> RomByte(off + i - 1)]

\* ------------------------------------------------------------ FAT entries
Zeros(n) == [i \in 1..n |-> 0]

\* v[at..][..Len(bytes)].clone_from_slice(bytes), at counted from 0.
Put(v, at, bytes) ==
    [i \in 1..Len(v) |-> IF at < i /\ i <= at + Len(bytes) THEN bytes[i - at] ELSE v[i]]

SymElen(name, target) == Len(name) + Len(target) + 5

\* A symlink entry whose target starts right after the name.
SymEntryPacked(parent, name, target) ==
    LET dl == Len(name)
        elen == SymElen(name, target)
        s0 == Zeros(elen + 3)
        s1 == Put(s0, 0, <<KFS_SYM_ID>>)
        s2 == Put(s1, 1, LE16(elen))
        s3 == Put(s2, 3, LE16(parent))
        s4 == Put(s3, 5, <<(dl + 1) % 256>>)
        s5 == Put(s4, 6, name)
        s6 == Put(s5, 6 + dl, target)
    IN  Reverse(s6)

SymEntry(parent, name, target) ==
    LET dl == Len(name)
        elen == SymElen(name, target)
        s0 == Zeros(elen + 3)
        s1 == Put(s0, 0, <<KFS_SYM_ID>>)
        s2 == Put(s1, 1, LE16(elen))
        s3 == Put(s2, 3, LE16(parent))
        s4 == Put(s3, 5, <<(dl + 1) % 256>>)
        s5 == Put(s4, 6, name)
        s6 == Put(s5, 7 + dl, target)
    IN  Reverse(s6)

DirElen(name) == Len(name) + 6
DirEntry(parent, id, name) ==
    LET elen == DirElen(name)
        f0 == Zeros(elen + 3)
        f1 == Put(f0, 0, <<KFS_DIR_ID>>)
        f2 == Put(f1, 1, LE16(elen))
        f3 == Put(f2, 3, LE16(parent))
        f4 == Put(f3, 5, LE16(id))
        f5 == Put(f4, 7, <<255>>)
        f6 == Put(f5, 8, name)
    IN  Reverse(f6)

FileElen(name) == Len(name) + 9
FileEntry(parent, len, sid, name) ==
    LET elen == FileElen(name)
        f0 == Zeros(elen + 3)
        f1 == Put(f0, 0, <<KFS_FILE_ID>>)
        f2 == Put(f1, 1, LE16(elen))
        f3 == Put(f2, 3, LE16(parent))
        f4 == Put(f3, 5, <<255>>)
        f5 == Put(f4, 6, LE24(len))
        f6 == Put(f5, 9, <<sid % 256>>)
        f7 == Put(f6, 10, <<(sid \div 256) % 256>>)
        f8 == Put(f7, 11, name)
    IN  Reverse(f8)

\* ------------------------------------------------------------ operations
\* write_fat: the FAT pointer moves down by length, the entry is written there.
FatSeek(fp, len) == fp - len
write_fat(r, entry, len, fp, owner) ==
    [rom |-> Append(r, WBytes(FatSeek(fp, len), SubSeq(entry, 1, len), "fat", owner)),
     fatptr |-> FatSeek(fp, len)]

\* The offset of a section's data slot.
BlockAddr(sid) == (sid \div 256) * PAGE_LENGTH + (sid % 256) * BLOCK_SIZE
\* The offset of a section's header.
HeaderAddr(sid) == PAGE_LENGTH * (sid \div 256) + (sid % 256) * 4

\* write_block: up to one block is read from the file's position and written
\* to the section's data slot.
write_block(r, f, sid) ==
    LET n == Min(BLOCK_SIZE, f.len - f.pos)
    IN  [rom  |-> IF n = 0 THEN r
                  ELSE Append(r, WFile(BlockAddr(sid), n, Seed(f.path), f.pos, f.path)),
         file |-> [f EXCEPT !.pos = f.pos + n]]

MakeSID(flash_page, index) == ((flash_page * 256) % 65536) + index

Init ==
    /\ pc = "new"
    /\ rom_len \in {p * PAGE_LENGTH : p \in RomPages}
    /\ model \in Trees
    /\ fat_start = 0
    /\ dat_start = 0
    /\ rom = <<>>
    /\ parent_id = 0
    /\ section_id = 0
    /\ fatptr = 0
    /\ stack = <<>>
    /\ file = [path |-> <<>>, len |-> 0, pos |-> 0]
    /\ length = 0
    /\ pSID = 65535
    /\ result = 0

\* Context::new, safe version: fat_start = length / PAGE_LENGTH - 9 as u8.
FatStartOf(len) == len \div PAGE_LENGTH - 9
NewAccepts(len) == FatStartOf(len) >= 0 /\ FatStartOf(len) <= 255

New ==
    /\ pc = "new"
    /\ NewAccepts(rom_len)
    /\ fat_start' = FatStartOf(rom_len)
    /\ dat_start' = 4
    /\ pc' = "run"
    /\ UNCHANGED <<rom_len, model, rom, parent_id, section_id, fatptr, stack, file, length, pSID, result>>

\* The u64 subtraction underflows: a panic with overflow checks, otherwise
\* the wrapped value does not fit in a u8 and new returns InvalidData.
\* A quotient above 264 does not fit either.
NewFails ==
    /\ pc = "new"
    /\ ~NewAccepts(rom_len)
    /\ \/ pc' = "error"
       \/ /\ FatStartOf(rom_len) < 0
          /\ pc' = "panic"
    /\ UNCHANGED <<rom_len, model, fat_start, dat_start, rom, parent_id, section_id, fatptr,
                   stack, file, length, pSID, result>>

RECURSIVE BlankPages(_, _, _)
\* run: for p in dat_start..(fat_start + 1), one blank page after the other
\* from the seek position dat_start * PAGE_LENGTH.
BlankPages(p, end, fs) ==
    IF p >= end THEN <<>>
    ELSE <<WPage(p * PAGE_LENGTH, IF p <= fs - 4 THEN 75 ELSE 255)>> \o BlankPages(p + 1, end, fs)

\* The page initializer of run().  fat_start + 1 is a u8 sum: with
\* fat_start = 255 it panics under overflow checks and wraps to 0 (an empty
\* range) without them.
Run ==
    /\ pc = "run"
    /\ \/ /\ fat_start + 1 <= 255
          /\ rom' = rom \o BlankPages(dat_start, fat_start + 1, fat_start)
          /\ pc' = "wfs"
       \/ /\ fat_start + 1 > 255
          /\ rom' = rom \o BlankPages(dat_start, (fat_start + 1) % 256, fat_start)
          /\ pc' = "wfs"
       \/ /\ fat_start + 1 > 255
          /\ rom' = rom
          /\ pc' = "panic"
    /\ UNCHANGED <<rom_len, model, fat_start, dat_start, parent_id, section_id, fatptr,
                   stack, file, length, pSID, result>>

\* write_filesystem up to its call of write_recursive on the model root,
\* and that call's prologue (parent snapshot, sorted listing).
WriteFilesystem ==
    /\ pc = "wfs"
    /\ parent_id' = 0
    /\ section_id' = MakeSID(dat_start, 1)
    /\ fatptr' = (fat_start + 1) * PAGE_LENGTH
    /\ rom' = Append(rom, WBytes(dat_start * PAGE_LENGTH, <<75, 70, 83>>, "magic", <<>>))
    /\ stack' = <<[parent |-> 0, dir |-> <<>>, paths |-> SortedPaths(model)]>>
    /\ pc' = "rec"
    /\ UNCHANGED <<rom_len, model, fat_start, dat_start, file, length, pSID, result>>

Top == stack[Len(stack)]
Entry == Head(Top.paths)
EntryPath == Append(Top.dir, Entry.name)
\* The frame of the running write_recursive with its current entry consumed.
Advanced == [stack EXCEPT ![Len(stack)].paths = Tail(@)]

\* The entry's parent field written with the running counter instead of the
\* snapshot taken on entry.
EntryParentCounter(frame, counter) == counter

\* The parent ID of the entries of a running write_recursive: the snapshot
\* `parent` it took of *parent_id on entry.
EntryParent(frame, counter) == frame.parent

Symlink ==
    /\ pc = "rec" /\ stack # <<>> /\ Top.paths # <<>>
    /\ Entry.kind = "sym"
    /\ LET w == write_fat(rom, SymEntry(EntryParent(Top, parent_id), Entry.name, Entry.target),
                          SymElen(Entry.name, Entry.target) + 3, fatptr, EntryPath)
       IN  /\ rom' = w.rom
           /\ fatptr' = w.fatptr
    /\ stack' = Advanced
    /\ UNCHANGED <<pc, rom_len, model, fat_start, dat_start, parent_id, section_id,
                   file, length, pSID, result>>

NextId(id) == (id + 1) % 65536

Directory ==
    /\ pc = "rec" /\ stack # <<>> /\ Top.paths # <<>>
    /\ Entry.kind = "dir"
    /\ parent_id' = NextId(parent_id)
    /\ LET w == write_fat(rom, DirEntry(EntryParent(Top, parent_id), parent_id', Entry.name),
                          DirElen(Entry.name) + 3, fatptr, EntryPath)
       IN  /\ rom' = w.rom
           /\ fatptr' = w.fatptr
    /\ stack' = Append(Advanced,
                       [parent |-> parent_id', dir |-> EntryPath, paths |-> SortedPaths(Entry.children)])
    /\ UNCHANGED <<pc, rom_len, model, fat_start, dat_start, section_id, file, length, pSID, result>>

\* A regular file: its FAT entry, then the prologue of write_dat.
RegularFile ==
    /\ pc = "rec" /\ stack # <<>> /\ Top.paths # <<>>
    /\ Entry.kind = "file"
    /\ Entry.len <= 16777215
    /\ LET w == write_fat(rom, FileEntry(EntryParent(Top, parent_id), Entry.len, section_id, Entry.name),
                          FileElen(Entry.name) + 3, fatptr, EntryPath)
       IN  /\ rom' = w.rom
           /\ fatptr' = w.fatptr
    /\ file' = [path |-> EntryPath, len |-> Entry.len, pos |-> 0]
    /\ length' = Entry.len
    /\ pSID' = 65535
    /\ stack' = Advanced
    /\ pc' = "dat"
    /\ UNCHANGED <<rom_len, model, fat_start, dat_start, parent_id, section_id, result>>

\* The rollover taken one index late.
NextSectionLate(sid) ==
    LET flash_page == sid \div 256
        index == (sid % 256) + 1
    IN  IF index > 64 THEN MakeSID(flash_page + 1, 1) ELSE MakeSID(flash_page, index)

\* The rollover that restarts the index and stays on the page.
NextSectionSamePage(sid) ==
    LET flash_page == sid \div 256
        index == (sid % 256) + 1
    IN  IF index > 63 THEN MakeSID(flash_page, 1) ELSE MakeSID(flash_page, index)

\* The section cursor after the section sid is allocated.
NextSection(sid) ==
    LET flash_page == sid \div 256
        index == (sid % 256) + 1
    IN  IF index > 63 THEN MakeSID(flash_page + 1, 1) ELSE MakeSID(flash_page, index)

Rollover(sid) == (sid % 256) + 1 > 63

\* prevSID stored without the in-use mark.
StoredPrevRaw(p) == p

\* The header's two fields as write_dat stores them.
StoredPrev(p) == p % 32768
StoredNext(len, next) == IF len > BLOCK_SIZE THEN next ELSE 65535

\* One iteration of write_dat's loop.
WriteDatStep ==
    /\ pc = "dat"
    /\ length > 0
    /\ LET header_addr == HeaderAddr(section_id)
           next == NextSection(section_id)
           r1 == IF Rollover(section_id)
                 THEN Append(Append(rom,
                          WBytes(((section_id \div 256) + 1) * PAGE_LENGTH, <<75, 70, 83>>, "magic", file.path)),
                          WBytes(((section_id \div 256) + 1) * PAGE_LENGTH + 3,
                                 <<(255 * (2 ^ KFS_VERSION)) % 256>>, "magic", file.path))
                 ELSE rom
           nSID == StoredNext(length, next)
           r2 == Append(r1, WBytes(header_addr, LE16(StoredPrev(pSID)), "hdr", file.path))
           r3 == Append(r2, WBytes(header_addr + 2, LE16(nSID), "hdr", file.path))
           b == write_block(r3, file, section_id)
       IN  /\ rom' = b.rom
           /\ file' = b.file
           /\ length' = IF length > BLOCK_SIZE THEN length - BLOCK_SIZE ELSE 0
           /\ pSID' = section_id
           /\ section_id' = next
    /\ UNCHANGED <<pc, rom_len, model, fat_start, dat_start, parent_id, fatptr, stack, result>>

\* write_dat's loop ends and the traversal goes on.
WriteDatReturn ==
    /\ pc = "dat"
    /\ length = 0
    /\ pc' = "rec"
    /\ UNCHANGED <<rom_len, model, fat_start, dat_start, rom, parent_id, section_id, fatptr,
                   stack, file, length, pSID>>
    /\ UNCHANGED result

\* A nested write_recursive has no entry left and returns to its caller.
Return ==
    /\ pc = "rec" /\ Len(stack) > 1 /\ Top.paths = <<>>
    /\ stack' = SubSeq(stack, 1, Len(stack) - 1)
    /\ UNCHANGED <<pc, rom_len, model, fat_start, dat_start, rom, parent_id, section_id, fatptr,
                   file, length, pSID, result>>

\* The page summary of write_filesystem.
Summary(fatptr_start, fp, sid, ds) ==
    LET quot == (fatptr_start - fp) \div PAGE_LENGTH
        rem == (fatptr_start - fp) % PAGE_LENGTH
        fat_pages == IF rem > 0 THEN quot + 1 ELSE quot
    IN  fat_pages * 256 + (sid \div 256) - ds + 1

\* The root write_recursive returns; write_filesystem computes its result
\* and run() reports it.
Finish ==
    /\ pc = "rec" /\ Len(stack) = 1 /\ Top.paths = <<>>
    /\ stack' = <<>>
    /\ result' = Summary((fat_start + 1) * PAGE_LENGTH, fatptr, section_id, dat_start)
    /\ pc' = "done"
    /\ UNCHANGED <<rom_len, model, fat_start, dat_start, rom, parent_id, section_id, fatptr,
                   file, length, pSID>>

Next ==
    \/ New
    \/ NewFails
    \/ Run
    \/ WriteFilesystem
    \/ Symlink
    \/ Directory
    \/ RegularFile
    \/ WriteDatStep
    \/ WriteDatReturn
    \/ Return
    \/ Finish

Spec == Init /\ [][Next]_vars

\* ------------------------------------------------------------ reading the run
\* The writes of write_fat, in the order they were issued.
FatWrites == SelectSeq(rom, LAMBDA w : w.by = "fat")

\* An entry in logical order (byte 0 first), counted from 0.
Logical(w) == Reverse(w.data)
At(e, i) == e[i + 1]
U16At(e, i) == At(e, i) + 256 * At(e, i + 1)

RECURSIVE WalkSeq(_, _)
\* The entries of a directory in the order of the traversal: the children by
\* name, each directory followed by its own subtree.
WalkSeq(ch, prefix) ==
    IF ch = <<>> THEN <<>>
    ELSE LET n == Head(ch)
             path == Append(prefix, n.name)
         IN  <<[path |-> path, node |-> n]>>
             \o (IF n.kind = "dir" THEN WalkSeq(SortedPaths(n.children), path) ELSE <<>>)
             \o WalkSeq(Tail(ch), prefix)

Traversal == WalkSeq(SortedPaths(model), <<>>)

\* The state is one of a run that the layout planner accepted.
Accepted == pc \in {"run", "wfs", "rec", "dat", "done"}
\* The state is one of a running or finished write_filesystem.
Writing == pc \in {"rec", "dat", "done"}

\* The offsets of write w that lie in the kernel pages or above page fat_start.
KernelPart(w) == w.off .. (Min(w.off + w.len, 4 * PAGE_LENGTH) - 1)
UpperPart(w) ==
    (IF w.off > (fat_start + 1) * PAGE_LENGTH THEN w.off ELSE (fat_start + 1) * PAGE_LENGTH)
        .. (Min(w.off + w.len, rom_len) - 1)

\* C1 (as claimed): in a run the layout planner accepted, every byte at an
\* offset in [0, 4*16384) and in [(fat_start+1)*16384, L) keeps its pre-run
\* value: no write touches these offsets.  Stated for the ROMs of at least
\* 13 pages, which the planner of the specification accepts as well.
C1_LayoutSoundness ==
    (Accepted /\ rom_len \div PAGE_LENGTH >= 13) =>
        \A i \in 1..Len(rom) :
            /\ \A o \in KernelPart(rom[i]) \cup UpperPart(rom[i]) : RomByte(o) = Orig(o)
            /\ rom[i].off >= dat_start * PAGE_LENGTH
            /\ rom[i].off + rom[i].len <= (fat_start + 1) * PAGE_LENGTH

\* Space has been consumed: a FAT entry, a section header, a block or a
\* rollover magic has been written.
Consumed == \E i \in 1..Len(rom) : rom[i].by \in {"fat", "hdr", "block"}

\* C2 (as claimed): whenever write_fat has moved the FAT pointer or write_dat
\* has allocated a section, FATpointer >= (SID.page + 1) * 16384 for the
\* section cursor SID.  Stated for the ROMs of at least 13 pages.
C2_NeverCross ==
    (Writing /\ Consumed /\ rom_len \div PAGE_LENGTH >= 13) => fatptr >= ((section_id \div 256) + 1) * PAGE_LENGTH

\* C3 (as claimed): a ROM of fewer than 13 pages, or one whose page count
\* less 9 does not fit in 8 bits, never gets past Context::new and nothing is
\* written; every run that reaches the page initializer has
\* fat_start - dat_start >= 4 and a FAT pointer starting above page 3.
C3_InvalidLayout ==
    /\ (rom_len \div PAGE_LENGTH < 13 \/ FatStartOf(rom_len) > 255)
          => (pc \in {"new", "error", "panic"} /\ rom = <<>>)
    /\ Accepted => (fat_start - dat_start >= 4 /\ (fat_start + 1) * PAGE_LENGTH > 4 * PAGE_LENGTH)

\* ------------------------------------------------------------ the image
\* The bytes [off, off + n) of the image are the bytes pos.. of the file with
\* this seed.  When the last write that overlaps the range is one block read
\* from that position of that file and covers the range, they are; otherwise
\* the bytes are compared one by one.
BlockHolds(off, n, seed, pos) ==
    LET ws == {i \in 1..Len(rom) : rom[i].off < off + n /\ off < rom[i].off + rom[i].len}
    IN  \/ /\ ws # {}
           /\ LET w == rom[Max(ws)]
              IN  /\ w.kind = "file"
                  /\ w.off <= off /\ off + n <= w.off + w.len
                  /\ w.data[1] = seed
                  /\ w.data[2] + (off - w.off) = pos
        \/ \A i \in 0..(n - 1) : RomByte(off + i) = Content(seed, pos + i)

\* The two fields of a section's header in the image.
PrevSIDAt(sid) == RomByte(HeaderAddr(sid)) + 256 * RomByte(HeaderAddr(sid) + 1)
NextSIDAt(sid) == RomByte(HeaderAddr(sid) + 2) + 256 * RomByte(HeaderAddr(sid) + 3)

RECURSIVE ChainHolds(_, _, _, _)
\* Following nextSID from section sid, the data slots hold the file's bytes
\* from pos on, 256 per section and the rest in the last, whose nextSID is
\* 0xFFFF.
ChainHolds(seed, sid, pos, len) ==
    LET n == Min(BLOCK_SIZE, len - pos)
    IN  /\ BlockHolds(BlockAddr(sid), n, seed, pos)
        /\ IF pos + n >= len THEN NextSIDAt(sid) = 65535
           ELSE /\ NextSIDAt(sid) # 65535
                /\ ChainHolds(seed, NextSIDAt(sid), pos + n, len)

\* The file entries among the emitted FAT entries.
IsFile(w) == At(Logical(w), 0) = KFS_FILE_ID
FileEntries == LET fw == FatWrites IN {k \in 1..Len(fw) : IsFile(fw[k])}
\* The length and the first SID that a file entry records.
LenOf(w) == At(Logical(w), 6) + 256 * At(Logical(w), 7) + 65536 * At(Logical(w), 8)
SIDOf(w) == U16At(Logical(w), 9)
EntryLen(k) == LenOf(FatWrites[k])
EntrySID(k) == SIDOf(FatWrites[k])

\* C4 (as claimed): in the final image, the chain of every regular file,
\* walked from the first SID of its FAT entry along nextSID to 0xFFFF, holds
\* exactly the file's bytes in order.
C4_ChainCorrect ==
    pc = "done" =>
        LET fw == FatWrites
        IN  \A k \in 1..Len(fw) :
                (IsFile(fw[k]) /\ LenOf(fw[k]) > 0) =>
                    ChainHolds(Seed(fw[k].owner), SIDOf(fw[k]), 0, LenOf(fw[k]))

RECURSIVE SumLen(_, _)
\* The bytes of the first k emitted FAT entries.
SumLen(fw, k) == IF k = 0 THEN 0 ELSE fw[k].len + SumLen(fw, k - 1)

\* The top of the FAT.
FatTop == (fat_start + 1) * PAGE_LENGTH

\* C6 (as claimed): after the run, the k-th entry of the traversal occupies
\* [F - sum_{i<=k}(elen_i + 3), F - sum_{i<k}(elen_i + 3)) of the image, the
\* FAT pointer is F less the sum over all entries, and the entries read from
\* F downward are those of the traversal, in its order.
C6_FatPacking ==
    pc = "done" =>
        LET fw == FatWrites
            tr == Traversal
        IN  /\ Len(fw) = Len(tr)
            /\ fatptr = FatTop - SumLen(fw, Len(fw))
            /\ \A k \in 1..Len(fw) :
                  /\ fw[k].owner = tr[k].path
                  /\ fw[k].len = U16At(Logical(fw[k]), 1) + 3
                  /\ fw[k].off = FatTop - SumLen(fw, k)
                  /\ RomBytes(FatTop - SumLen(fw, k), fw[k].len) = fw[k].data

\* The FAT entries as write_fat wrote them: packed downward from F, in the
\* order of the traversal (whatever was written over them later).
FatPackingAsWritten ==
    Writing =>
        LET fw == FatWrites
            tr == Traversal
        IN  /\ Len(fw) <= Len(tr)
            /\ fatptr = FatTop - SumLen(fw, Len(fw))
            /\ \A k \in 1..Len(fw) :
                  /\ fw[k].owner = tr[k].path
                  /\ fw[k].len = U16At(Logical(fw[k]), 1) + 3
                  /\ fw[k].off = FatTop - SumLen(fw, k)

\* ------------------------------------------------------------ sections
\* The number of sections of a file of len bytes.
SectionCount(len) == (len + BLOCK_SIZE - 1) \div BLOCK_SIZE

\* The section whose header is at offset off.
SectionAt(off) == (off \div PAGE_LENGTH) * 256 + (off % PAGE_LENGTH) \div 4
\* The section whose data slot is at offset off.
SlotAt(off) == (off \div PAGE_LENGTH) * 256 + (off % PAGE_LENGTH) \div BLOCK_SIZE

\* The writes of prevSID fields that write_dat made for the file at path, in
\* order: one per section it allocated for the file.
HeaderWrites(path) ==
    SelectSeq(rom, LAMBDA w : w.by = "hdr" /\ w.owner = path /\ w.off % 4 = 0)

\* The last section write_dat allocated for the file of an emitted entry.
LastSectionOf(w) ==
    LET hw == HeaderWrites(w.owner)
    IN  SectionAt(hw[Len(hw)].off)

\* No write_dat is running: every emitted file has all its sections.
Settled == pc \in {"rec", "done"}

\* C5 (as claimed): in the final image, for every regular file of length > 0 the header of the
\* last section of its chain stores nextSID = 0xFFFF and the header of the
\* first stores prevSID = 0xFFFF; for a model of one file of at most 256
\* bytes the header at 0x10004 is FF FF FF FF.
C5_Sentinels ==
    pc = "done" =>
        /\ LET fw == FatWrites
           IN  \A k \in 1..Len(fw) :
                   (IsFile(fw[k]) /\ LenOf(fw[k]) > 0) =>
                       /\ NextSIDAt(LastSectionOf(fw[k])) = 65535
                       /\ PrevSIDAt(SIDOf(fw[k])) = 65535
        /\ (Cardinality(model) = 1 /\ FileEntries = {1}
                /\ EntryLen(1) > 0 /\ EntryLen(1) <= 256)
              => RomBytes(65540, 4) = <<255, 255, 255, 255>>

\* The writes of nextSID fields that write_dat made for the file at path.
NextWrites(path) ==
    SelectSeq(rom, LAMBDA w : w.by = "hdr" /\ w.owner = path /\ w.off % 4 = 2)

\* C5 (amended): for every regular file of length > 0, write_dat stores
\* nextSID = 0xFFFF in the header of the last section of its chain and
\* prevSID = 0x7FFF (0xFFFF with bit 15, the in-use mark, cleared) in the
\* header of the first, the section its FAT entry names; for a model of one
\* file of at most 256 bytes the header at 0x10004 of the final image is
\* FF 7F FF FF.
C5_SentinelsInUse ==
    pc = "done" =>
        /\ LET fw == FatWrites
           IN  \A k \in 1..Len(fw) :
                   (IsFile(fw[k]) /\ LenOf(fw[k]) > 0) =>
                       LET hw == HeaderWrites(fw[k].owner)
                           nw == NextWrites(fw[k].owner)
                       IN  /\ Len(hw) = SectionCount(LenOf(fw[k]))
                           /\ Len(nw) = Len(hw)
                           /\ hw[1].off = HeaderAddr(SIDOf(fw[k]))
                           /\ hw[1].data = <<255, 127>>
                           /\ nw[Len(nw)].off = hw[Len(hw)].off + 2
                           /\ nw[Len(nw)].data = <<255, 255>>
                           /\ \A i \in 1..(Len(nw) - 1) : nw[i].data # <<255, 255>>
        /\ (Cardinality(model) = 1 /\ FileEntries = {1}
                /\ EntryLen(1) > 0 /\ EntryLen(1) <= 256)
              => RomBytes(65540, 4) = <<255, 127, 255, 255>>

\* C5 witness: a finished run with a file of more than one section (its first
\* and last sections differ).
C5_Witness ==
    /\ pc = "done"
    /\ \E k \in FileEntries :
          EntryLen(k) > 256 /\ LastSectionOf(FatWrites[k]) # EntrySID(k)

\* ------------------------------------------------------------ parent IDs
\* The directories in the order the traversal visits them.
DirVisits == SelectSeq(Traversal, LAMBDA t : t.node.kind = "dir")

\* The i-th directory visited has ID i; the model root has ID 0.
DirIdIn(dv, path) ==
    IF path = <<>> THEN 0
    ELSE CHOOSE i \in 1..Len(dv) : dv[i].path = path

Containing(path) == SubSeq(path, 1, Len(path) - 1)

IsDir(w) == At(Logical(w), 0) = KFS_DIR_ID
DirEntries == LET fw == FatWrites IN {k \in 1..Len(fw) : IsDir(fw[k])}

\* C7: the i-th directory visited in pre-order over sorted children has own
\* ID i, the parent field of every emitted entry is the ID of the directory
\* that directly contains it, and only directory entries move the ID counter.
C7_ParentIds ==
    Settled =>
        LET fw == FatWrites
            tr == Traversal
            dv == DirVisits
        IN  /\ Len(fw) <= Len(tr)
            /\ parent_id = Cardinality(DirEntries)
            /\ \A k \in 1..Len(fw) :
                  /\ fw[k].owner = tr[k].path
                  /\ U16At(Logical(fw[k]), 3) = DirIdIn(dv, Containing(fw[k].owner))
                  /\ IsDir(fw[k]) = (tr[k].node.kind = "dir")
                  /\ IsDir(fw[k]) => U16At(Logical(fw[k]), 5) = DirIdIn(dv, fw[k].owner)

\* C7 witness: a finished run in which a file or symlink of the root follows
\* a subdirectory that holds a directory of its own: its parent field is 0
\* while the counter stands at 2.
C7_Witness ==
    /\ pc = "done"
    /\ parent_id = 2
    /\ \E k \in 1..Len(FatWrites) :
          /\ k \notin DirEntries
          /\ k = Len(FatWrites)
          /\ Len(FatWrites[k].owner) = 1
          /\ U16At(Logical(FatWrites[k]), 3) = 0
          /\ \E j \in DirEntries : j < k /\ U16At(Logical(FatWrites[j]), 5) = 2

\* ------------------------------------------------------------ entry layout
\* The node of the model at a path.
NodeAt(path) ==
    LET tr == Traversal
    IN  tr[CHOOSE i \in 1..Len(tr) : tr[i].path = path].node

\* A FAT entry has just been written.
FatJustWritten == Len(rom) > 0 /\ rom[Len(rom)].by = "fat"
LastNode == NodeAt(rom[Len(rom)].owner)
\* The entry just written as the image holds it, in storage order and in
\* logical order.
LastStored == RomBytes(rom[Len(rom)].off, rom[Len(rom)].len)
LastLogical == Reverse(LastStored)

Slice(e, from, n) == [i \in 1..n |-> At(e, from + i - 1)]
TagOf(kind) == CASE kind = "file" -> KFS_FILE_ID [] kind = "dir" -> KFS_DIR_ID [] kind = "sym" -> KFS_SYM_ID

\* C8 (as claimed): an entry is stored in exactly elen + 3 bytes, the tag at
\* the highest address and the last name byte (file, directory) or the last
\* target byte (symlink) at the lowest; in a symlink entry byte 5 is
\* name_length + 1, the name is at bytes 6.. and the target follows it with
\* no byte in between.
C8_NoTerminator ==
    FatJustWritten =>
        LET n == LastNode
            e == LastLogical
            st == LastStored
            nl == Len(n.name)
        IN  /\ Len(st) = U16At(e, 1) + 3
            /\ rom[Len(rom)].off = fatptr
            /\ st[Len(st)] = TagOf(n.kind)
            /\ n.kind \in {"file", "dir"} => st[1] = n.name[nl]
            /\ n.kind = "sym" =>
                  /\ st[1] = n.target[Len(n.target)]
                  /\ At(e, 5) = nl + 1
                  /\ Slice(e, 6, nl) = n.name
                  /\ Slice(e, 6 + nl, Len(n.target)) = n.target

\* C8 (amended): an entry is stored in exactly elen + 3 bytes, the tag at the
\* highest address and a 0x00 terminator at the lowest, right below the last
\* name byte (file, directory) or the last target byte (symlink); in a
\* symlink entry byte 5 is name_length + 1, the name is at bytes 6.., one
\* 0x00 byte follows it and the target follows that byte.
C8_Terminated ==
    FatJustWritten =>
        LET n == LastNode
            e == LastLogical
            st == LastStored
            nl == Len(n.name)
            tl == Len(n.target)
        IN  /\ Len(st) = U16At(e, 1) + 3
            /\ rom[Len(rom)].off = fatptr
            /\ st[Len(st)] = TagOf(n.kind)
            /\ st[1] = 0
            /\ n.kind = "file" => (Len(st) = nl + 12 /\ Slice(e, 11, nl) = n.name /\ st[2] = n.name[nl])
            /\ n.kind = "dir" => (Len(st) = nl + 9 /\ Slice(e, 8, nl) = n.name /\ st[2] = n.name[nl])
            /\ n.kind = "sym" =>
                  /\ Len(st) = nl + tl + 8
                  /\ st[2] = n.target[tl]
                  /\ At(e, 5) = nl + 1
                  /\ Slice(e, 6, nl) = n.name
                  /\ At(e, 6 + nl) = 0
                  /\ Slice(e, 7 + nl, tl) = n.target

\* C8 witness: a symlink entry has just been written below an earlier entry.
C8_Witness ==
    /\ FatJustWritten
    /\ LastNode.kind = "sym"
    /\ Len(FatWrites) > 1

\* ------------------------------------------------------------ the cursor
\* The magic writes of write_dat's rollovers ("KFS" and the version byte).
RolloverMagic == SelectSeq(rom, LAMBDA w : w.by = "magic" /\ w.owner # <<>>)

\* write_dat has written the header, the data slot, of section sid (for any
\* file).
Allocated(sid) == \E i \in 1..Len(rom) : rom[i].by = "hdr" /\ rom[i].off = HeaderAddr(sid)
Filled(sid) == \E i \in 1..Len(rom) : rom[i].by = "block" /\ rom[i].off = BlockAddr(sid)

HeadersFor(path) ==
    {SectionAt(rom[i].off) : i \in {j \in 1..Len(rom) : rom[j].by = "hdr" /\ rom[j].owner = path}}
SlotsFor(path) ==
    {SlotAt(rom[i].off) : i \in {j \in 1..Len(rom) : rom[j].by = "block" /\ rom[j].owner = path}}

\* The first SID of the entry w names a section written for w's file only.
OwnsFirst(w, fw) ==
    /\ SIDOf(w) \in HeadersFor(w.owner)
    /\ SIDOf(w) \in SlotsFor(w.owner)
    /\ \A j \in 1..Len(fw) :
          (IsFile(fw[j]) /\ fw[j].owner # w.owner) =>
              /\ SIDOf(w) \notin HeadersFor(fw[j].owner)
              /\ SIDOf(w) \notin SlotsFor(fw[j].owner)
              /\ SIDOf(fw[j]) # SIDOf(w)
              /\ HeadersFor(fw[j].owner) \cap HeadersFor(w.owner) = {}
              /\ SlotsFor(fw[j].owner) \cap SlotsFor(w.owner) = {}

====
